---- MODULE Spec2Model ----
(***************************************************************************)
(* EncryptionManager of backend/ml/cpp/eaglearn_ml.{h,cpp}: key derivation *)
(* at construction, encrypt (AES-256-GCM, nonce || tag || ciphertext,      *)
(* base64) and decrypt (base64 decode, length check, tag verification).    *)
(*                                                                         *)
(* Strings and buffers are sequences of bytes 0..255; text is a sequence   *)
(* of character codes. The base64 loops and the envelope layout are        *)
(* translated statement by statement. The OpenSSL primitives are library   *)
(* code outside the repository; they are modelled by their contract:       *)
(*   - PBKDF2 is a deterministic function of (password, salt, iterations), *)
(*   - AES-GCM is a counter-mode stream (XOR with a keystream of key and   *)
(*     nonce) with a 16-byte tag over key, nonce, ciphertext and length    *)
(*     that no single-bit change of its inputs leaves unchanged,           *)
(*   - RAND_bytes is a generator whose successive outputs do not repeat.   *)
(* Every library call whose result the code does not test may also fail;   *)
(* the failing environment is the specification SpecFault.                 *)
(***************************************************************************)
EXTENDS Integers, Sequences, FiniteSets, TLC

\* ---------------------------------------------------------------- bounds
MaxEnc == 2       \* envelopes produced in one behaviour
MaxLen == 3       \* longest plaintext, in bytes
MaxCodecLen == 4  \* longest byte sequence enumerated for the codec alone

\* ------------------------------------------------------ program constants
KeyLen == 32
NonceLen == 12
TagLen == 16
MinEnvelope == 28
Iterations == 100000

Inst == {1, 2}    \* service instances
Byte == 0..255

\* ------------------------------------------------------------ bit helpers
RECURSIVE BitOr(_, _)
BitOr(a, b) ==
    IF a = 0 THEN b
    ELSE IF b = 0 THEN a
    ELSE (IF a % 2 = 1 \/ b % 2 = 1 THEN 1 ELSE 0) + 2 * BitOr(a \div 2, b \div 2)

RECURSIVE BitXor(_, _)
BitXor(a, b) ==
    IF a = 0 THEN b
    ELSE IF b = 0 THEN a
    ELSE ((a + b) % 2) + 2 * BitXor(a \div 2, b \div 2)

\* conversion of an int to unsigned char
ToUChar(x) == x % 256

\* a weighted byte sum with odd weights: changing one bit of one byte changes
\* it modulo 256
RECURSIVE MixTo(_, _)
MixTo(s, n) == IF n = 0 THEN 0 ELSE ((2 * n + 1) * s[n] + MixTo(s, n - 1)) % 256
Mix(s) == MixTo(s, Len(s))

Zeros(n) == [j \in 1..n |-> 0]

\* ------------------------------------------------------- OpenSSL contract
\* PKCS5_PBKDF2_HMAC(pass, salt, iter, EVP_sha256(), keylen, out)
PKCS5_PBKDF2_HMAC(pass, salt, iter, keylen) ==
    LET h == (41 + 31 * Mix(pass) + 7 * Mix(salt) + iter) % 256
        g == (2 * Mix(pass) + 2 * Len(pass) + 3) % 256
    IN  [j \in 1..keylen |-> (h + g * j) % 256]

\* RAND_bytes(buf, 12): the n-th output block of the process-wide generator
RAND_bytes(n) == [j \in 1..NonceLen |-> (255 + 101 * n * j + 7 * (j - 1)) % 256]

\* AES-256 in counter mode: byte k of the keystream for (key, nonce)
KeyStream(key, nonce, k) ==
    (key[((k - 1) % KeyLen) + 1] + 7 * nonce[((k - 1) % NonceLen) + 1] + 13 * k) % 256

\* EVP_EncryptUpdate / EVP_DecryptUpdate in GCM mode: same length, XOR stream
GcmCrypt(key, nonce, data) ==
    [k \in 1..Len(data) |-> BitXor(data[k], KeyStream(key, nonce, k))]

\* EVP_CTRL_GCM_GET_TAG: the tag over key, nonce, ciphertext and its length
GcmTag(key, nonce, ct) ==
    LET m == (Mix(nonce) + 29 * Mix(ct) + 97 * Len(ct)) % 256
    IN  [j \in 1..TagLen |-> (key[j] + 5 * key[j + TagLen] + (2 * j - 1) * m) % 256]

\* --------------------------------------------------------------- strings
EqualsSign == 61      \* '='
NulChar == 0          \* what operator[] yields at index length()

\* the std::runtime_error messages
KeyNotSet == "Encryption key not set"
InvalidData == "Invalid encrypted data"
DecryptionFailed == "Decryption failed"
Returned == "returned"

\* the spec's names for the three failures
KeyNotConfigured == KeyNotSet
MalformedEnvelope == InvalidData
AuthenticationFailure == DecryptionFailed

\* static const char b64_chars[]; index v holds b64_chars[v + 1]
b64_chars ==
    [k \in 1..64 |->
        IF k <= 26 THEN 64 + k
        ELSE IF k <= 52 THEN 70 + k
        ELSE IF k <= 62 THEN k - 5
        ELSE IF k = 63 THEN 43 ELSE 47]

\* bug variant: a table typo that gives '+' the value of '/'
b64_decode_map_typo(c) ==
    IF c = 43 \/ c = 47 THEN 63
    ELSE IF c >= 48 /\ c <= 57 THEN c + 4
    ELSE IF c >= 65 /\ c <= 90 THEN c - 65
    ELSE IF c >= 97 /\ c <= 122 THEN c - 71
    ELSE -1

\* static const int b64_decode_map[256]
b64_decode_map(c) ==
    IF c = 43 THEN 62
    ELSE IF c = 47 THEN 63
    ELSE IF c >= 48 /\ c <= 57 THEN c + 4
    ELSE IF c >= 65 /\ c <= 90 THEN c - 65
    ELSE IF c >= 97 /\ c <= 122 THEN c - 71
    ELSE -1

\* ------------------------------------------------------------ constructor
\* salt_ = {'e','a','g','l','e','a','r','n','_','s','a','l','t','_','v','1'}
SaltLiteral ==
    <<101, 97, 103, 108, 101, 97, 114, 110, 95, 115, 97, 108, 116, 95, 118, 49>>

\* std::string::empty, std::vector::empty
empty(v) == Len(v) = 0

\* bug variant: the test on the master key inverted
derive_key_inverted(master_key, salt, kdfOk) ==
    IF empty(master_key) /\ kdfOk
    THEN PKCS5_PBKDF2_HMAC(master_key, salt, Iterations, KeyLen)
    ELSE Zeros(KeyLen)

\* bug variant: the vector gets its 32 bytes only where PBKDF2 fills it
derive_key_unsized(master_key, salt, kdfOk) ==
    IF empty(master_key) THEN <<>>
    ELSE IF kdfOk THEN PKCS5_PBKDF2_HMAC(master_key, salt, Iterations, KeyLen)
    ELSE Zeros(KeyLen)

\* derive_key: a zero-filled vector of 32 bytes, overwritten by PBKDF2 only for a
\* non-empty master key. kdfOk = FALSE is PKCS5_PBKDF2_HMAC returning 0 (its
\* result is not tested), which leaves the buffer as it was.
derive_key(master_key, salt, kdfOk) ==
    IF ~empty(master_key) /\ kdfOk
    THEN PKCS5_PBKDF2_HMAC(master_key, salt, Iterations, KeyLen)
    ELSE Zeros(KeyLen)

\* ---------------------------------------------------------------- encrypt
\* bug variant: the unused tail of the final quartet is left out instead of padded
EncodeTripleUnpadded(data, i) ==
    LET b1 == data[i + 1]
        b2 == IF i + 1 < Len(data) THEN data[i + 2] ELSE 0
        b3 == IF i + 2 < Len(data) THEN data[i + 3] ELSE 0
    IN  << b64_chars[(b1 \div 4) + 1],
           b64_chars[BitOr((b1 % 4) * 16, b2 \div 16) + 1] >>
        \o (IF i + 1 < Len(data)
            THEN <<b64_chars[BitOr((b2 % 16) * 4, b3 \div 64) + 1]>> ELSE <<>>)
        \o (IF i + 2 < Len(data) THEN <<b64_chars[(b3 % 64) + 1]>> ELSE <<>>)

\* one round of encrypt's base64 loop: the 4 characters for the bytes at i, i+1, i+2
EncodeTriple(data, i) ==
    LET b1 == data[i + 1]
        b2 == IF i + 1 < Len(data) THEN data[i + 2] ELSE 0
        b3 == IF i + 2 < Len(data) THEN data[i + 3] ELSE 0
    IN  << b64_chars[(b1 \div 4) + 1],
           b64_chars[BitOr((b1 % 4) * 16, b2 \div 16) + 1],
           IF i + 1 < Len(data)
           THEN b64_chars[BitOr((b2 % 16) * 4, b3 \div 64) + 1] ELSE EqualsSign,
           IF i + 2 < Len(data) THEN b64_chars[(b3 % 64) + 1] ELSE EqualsSign >>

\* for (size_t i = 0; i < encrypted_data.size(); i += 3)
RECURSIVE EncodeLoop(_, _)
EncodeLoop(data, i) ==
    IF ~(i < Len(data)) THEN <<>> ELSE EncodeTriple(data, i) \o EncodeLoop(data, i + 3)

\* bug variant: tag and nonce in the wrong order
CombineTagFirst(nonce, tag, ciphertext) == tag \o nonce \o ciphertext

\* encrypted_data: nonce, then tag, then ciphertext
Combine(nonce, tag, ciphertext) == nonce \o tag \o ciphertext

\* bug variant: no short-circuit for the empty plaintext
encrypt_always(key, plaintext, nonce) ==
    IF empty(key)
    THEN [status |-> KeyNotSet, output |-> <<>>, rand |-> FALSE, aead |-> FALSE,
          data |-> <<>>]
    ELSE LET ciphertext == GcmCrypt(key, nonce, plaintext)
             encrypted_data == nonce \o GcmTag(key, nonce, ciphertext) \o ciphertext
         IN  [status |-> Returned, output |-> EncodeLoop(encrypted_data, 0),
              rand |-> TRUE, aead |-> TRUE, data |-> encrypted_data]

\* What one call of encrypt does. nonce is what the nonce buffer holds after
\* RAND_bytes. status and output are what the caller gets, rand whether RAND_bytes was
\* called, aead whether the cipher was run, data the bytes before encoding.
encrypt(key, plaintext, nonce) ==
    IF empty(plaintext)
    THEN [status |-> Returned, output |-> plaintext, rand |-> FALSE, aead |-> FALSE,
          data |-> <<>>]
    ELSE IF empty(key)
    THEN [status |-> KeyNotSet, output |-> <<>>, rand |-> FALSE, aead |-> FALSE,
          data |-> <<>>]
    ELSE LET ciphertext == GcmCrypt(key, nonce, plaintext)
             tag == GcmTag(key, nonce, ciphertext)
             encrypted_data == Combine(nonce, tag, ciphertext)
         IN  [status |-> Returned, output |-> EncodeLoop(encrypted_data, 0),
              rand |-> TRUE, aead |-> TRUE, data |-> encrypted_data]

\* ---------------------------------------------------------------- decrypt
\* encrypted[p] for a 0-based p: inside the string, the terminating NUL at
\* p = length(), and beyond that whatever memory follows (oob)
CharAt(encrypted, p, oob) ==
    IF p < Len(encrypted) THEN encrypted[p + 1]
    ELSE IF p = Len(encrypted) THEN NulChar
    ELSE oob[p - Len(encrypted)]

\* bug variant: the third byte is pushed on the test of the third character
DecodeQuartetOneTest(e1, e2, e3, e4) ==
    LET b1 == ToUChar(b64_decode_map(e1))
        b2 == ToUChar(b64_decode_map(e2))
        b3 == IF e3 # EqualsSign THEN ToUChar(b64_decode_map(e3)) ELSE 0
        b4 == IF e4 # EqualsSign THEN ToUChar(b64_decode_map(e4)) ELSE 0
    IN  <<ToUChar(BitOr(b1 * 4, b2 \div 16))>>
        \o (IF e3 # EqualsSign
            THEN <<ToUChar(BitOr((b2 % 16) * 16, b3 \div 4)),
                   ToUChar(BitOr((b3 % 4) * 64, b4))>>
            ELSE <<>>)

\* one round of decrypt's base64 loop: the bytes pushed for the characters e1..e4
DecodeQuartet(e1, e2, e3, e4) ==
    LET b1 == ToUChar(b64_decode_map(e1))
        b2 == ToUChar(b64_decode_map(e2))
        b3 == IF e3 # EqualsSign THEN ToUChar(b64_decode_map(e3)) ELSE 0
        b4 == IF e4 # EqualsSign THEN ToUChar(b64_decode_map(e4)) ELSE 0
    IN  <<ToUChar(BitOr(b1 * 4, b2 \div 16))>>
        \o (IF e3 # EqualsSign
            THEN <<ToUChar(BitOr((b2 % 16) * 16, b3 \div 4))>> ELSE <<>>)
        \o (IF e4 # EqualsSign
            THEN <<ToUChar(BitOr((b3 % 4) * 64, b4))>> ELSE <<>>)

\* bug variant: an index past the last character is kept inside the text
ReadAtClamped(encrypted, i) ==
    [k \in 1..4 |-> IF i + k - 1 < Len(encrypted) THEN i + k - 1 ELSE Len(encrypted) - 1]

\* the positions of encrypted that the round at i reads: encrypted[i],
\* encrypted[i + 1], encrypted[i + 2], encrypted[i + 3], whatever the length
ReadAt(encrypted, i) == <<i, i + 1, i + 2, i + 3>>

\* for (size_t i = 0; i < encrypted.length(); i += 4)
RECURSIVE DecodeLoop(_, _, _)
DecodeLoop(encrypted, i, oob) ==
    IF ~(i < Len(encrypted)) THEN <<>>
    ELSE LET q == ReadAt(encrypted, i)
         IN  DecodeQuartet(CharAt(encrypted, q[1], oob), CharAt(encrypted, q[2], oob),
                           CharAt(encrypted, q[3], oob), CharAt(encrypted, q[4], oob))
             \o DecodeLoop(encrypted, i + 4, oob)

\* every position the loop reads
RECURSIVE DecodeReads(_, _)
DecodeReads(encrypted, i) ==
    IF ~(i < Len(encrypted)) THEN {}
    ELSE {ReadAt(encrypted, i)[k] : k \in 1..4} \cup DecodeReads(encrypted, i + 4)

\* bug variant: only the nonce length is required
TooShortNonceOnly(encrypted_data) == Len(encrypted_data) < NonceLen

\* encrypted_data.size() < 28
TooShort(encrypted_data) == Len(encrypted_data) < MinEnvelope

\* a byte of encrypted_data; the size check keeps every read inside the vector
ByteAt(encrypted_data, k) == IF k <= Len(encrypted_data) THEN encrypted_data[k] ELSE 0

\* bug variant: the ciphertext taken from one byte too early
ExtractCiphertextEarly(encrypted_data) ==
    SubSeq(encrypted_data, MinEnvelope, Len(encrypted_data))

\* memcpy(nonce, data, 12); memcpy(tag, data + 12, 16); ciphertext(begin + 28, end)
ExtractNonce(encrypted_data) == [j \in 1..NonceLen |-> ByteAt(encrypted_data, j)]
ExtractTag(encrypted_data) == [j \in 1..TagLen |-> ByteAt(encrypted_data, NonceLen + j)]
ExtractCiphertext(encrypted_data) ==
    IF Len(encrypted_data) > MinEnvelope
    THEN SubSeq(encrypted_data, MinEnvelope + 1, Len(encrypted_data))
    ELSE <<>>

\* EVP_DecryptFinal_ex after EVP_CTRL_GCM_SET_TAG: 1 when the tag matches, else 0.
\* cipherOk = FALSE is EVP_DecryptInit_ex having failed (its result is not
\* tested): the context holds no cipher and every later call on it fails.
EVP_DecryptFinal_ex(key, nonce, tag, ciphertext, cipherOk) ==
    IF cipherOk /\ GcmTag(key, nonce, ciphertext) = tag THEN 1 ELSE 0

\* bug variant: only a negative result is treated as failure
FinalFailedNegative(ret) == ret < 0

\* if (ret <= 0) throw
FinalFailed(ret) == ret <= 0

\* What one call of decrypt does: status and output are what the caller gets,
\* data is the decoded encrypted_data, aead whether the cipher was run, ret the
\* result of EVP_DecryptFinal_ex.
decrypt(key, encrypted, oob, cipherOk) ==
    IF empty(encrypted)
    THEN [status |-> Returned, output |-> encrypted, aead |-> FALSE, data |-> <<>>,
          ret |-> 1]
    ELSE IF empty(key)
    THEN [status |-> KeyNotSet, output |-> <<>>, aead |-> FALSE, data |-> <<>>,
          ret |-> 1]
    ELSE LET encrypted_data == DecodeLoop(encrypted, 0, oob) IN
         IF TooShort(encrypted_data)
         THEN [status |-> InvalidData, output |-> <<>>, aead |-> FALSE,
               data |-> encrypted_data, ret |-> 1]
         ELSE LET nonce == ExtractNonce(encrypted_data)
                  tag == ExtractTag(encrypted_data)
                  ciphertext == ExtractCiphertext(encrypted_data)
                  plaintext == GcmCrypt(key, nonce, ciphertext)
                  ret == EVP_DecryptFinal_ex(key, nonce, tag, ciphertext, cipherOk)
              IN  IF FinalFailed(ret)
                  THEN [status |-> DecryptionFailed, output |-> <<>>, aead |-> TRUE,
                        data |-> encrypted_data, ret |-> ret]
                  ELSE [status |-> Returned, output |-> plaintext, aead |-> TRUE,
                        data |-> encrypted_data, ret |-> ret]

\* ------------------------------------------------------------------ state
VARIABLES
    master,   \* the master_key each instance was constructed with (not stored by the code)
    key_,     \* EncryptionManager::key_ of each instance
    salt_,    \* EncryptionManager::salt_ of each instance
    drbg,     \* number of blocks the process-wide generator has produced
    issued,   \* the nonce carried by each envelope returned so far, in order
    env,      \* the envelope returned by the latest successful encrypt (same: the
              \* envelope before it was made from the same plaintext)
    last,     \* the call whose result the caller holds: arguments and outcome
    call,     \* for each caller running a call step by step: its position and locals
    freed     \* the bytes left in the block that held the key of a destroyed
              \* instance; empty while the instance lives

vars == <<master, key_, salt_, drbg, issued, env, last, call, freed>>

\* master secrets: "", "test", "wrong"
SecretTest == <<116, 101, 115, 116>>
Secrets == {<<>>, SecretTest, <<119, 114, 111, 110, 103>>}

\* one plaintext of every length 0..MaxLen: "", "h", 68 BF, 68 BF 16, ...
Plaintexts == {[k \in 1..n |-> (17 + 87 * k) % 256] : n \in 0..MaxLen}

\* a character outside the base64 alphabet: '!'
BadChars == {33}

\* what the two bytes after a string's terminating NUL may hold
OobChars == {0, 61}
OobChoices == {<<a, b>> : a \in OobChars, b \in OobChars}
NoOob == <<0, 0>>

\* decoded lengths below the 28-byte minimum
ShortLens == {1, 2, 3, MinEnvelope - 2, MinEnvelope - 1}

NoEnv == [inst |-> 0, plain |-> <<>>, text |-> <<>>, data |-> <<>>, same |-> FALSE]
NoCall == [op |-> "none", inst |-> 0, kind |-> "none", fault |-> "none",
           input |-> <<>>, status |-> Returned, output |-> <<>>, rand |-> FALSE,
           aead |-> FALSE, nonce |-> <<>>, data |-> <<>>, ret |-> 1]

\* the callers (threads) of the step-by-step specification, and a caller that
\* is in no call
Callers == {1, 2}
Idle == [pc |-> "idle", op |-> "none", kind |-> "none", input |-> <<>>,
         expect |-> <<>>, ticket |-> 0, nonce |-> <<>>, tag |-> <<>>,
         ciphertext |-> <<>>, data |-> <<>>, plaintext |-> <<>>,
         status |-> Returned, result |-> <<>>]

\* bug variant: every instance has a salt of its own
ConstructOwnSalt(secrets, kdfOk) ==
    /\ master = secrets
    /\ salt_ = [i \in Inst |-> [SaltLiteral EXCEPT ![Len(SaltLiteral)] = 48 + i]]
    /\ key_ = [i \in Inst |->
                  derive_key(secrets[i], [SaltLiteral EXCEPT ![Len(SaltLiteral)] = 48 + i],
                             kdfOk[i])]
    /\ drbg = 0
    /\ issued = <<>>
    /\ env = NoEnv
    /\ last = NoCall
    /\ call = [t \in Callers |-> Idle]
    /\ freed = [i \in Inst |-> <<>>]

\* bug variant: an instance built without a secret makes up a key of its own
ConstructOwnDefault(secrets, kdfOk) ==
    /\ master = secrets
    /\ salt_ = [i \in Inst |-> SaltLiteral]
    /\ key_ = [i \in Inst |->
                  IF empty(secrets[i]) THEN [j \in 1..KeyLen |-> i]
                  ELSE derive_key(secrets[i], SaltLiteral, kdfOk[i])]
    /\ drbg = 0
    /\ issued = <<>>
    /\ env = NoEnv
    /\ last = NoCall
    /\ call = [t \in Callers |-> Idle]
    /\ freed = [i \in Inst |-> <<>>]

\* the constructor of every instance: salt_ is set, then key_ = derive_key(master_key)
Construct(secrets, kdfOk) ==
    /\ master = secrets
    /\ salt_ = [i \in Inst |-> SaltLiteral]
    /\ key_ = [i \in Inst |-> derive_key(secrets[i], SaltLiteral, kdfOk[i])]
    /\ drbg = 0
    /\ issued = <<>>
    /\ env = NoEnv
    /\ last = NoCall
    /\ call = [t \in Callers |-> Idle]
    /\ freed = [i \in Inst |-> <<>>]

\* instance 1 is built with "test", instance 2 with any of the secrets
Init ==
    \E s \in Secrets :
        Construct([i \in Inst |-> IF i = 1 THEN SecretTest ELSE s], [i \in Inst |-> TRUE])

\* ----------------------------------------------------------------- actions
\* one call of encrypt on instance i; nonce as in encrypt above
EncryptCall(i, plaintext, fault, nonce) ==
    /\ last = NoCall
    /\ \E r \in {encrypt(key_[i], plaintext, nonce)} :
        LET made == r.status = Returned /\ ~empty(plaintext)
        IN  /\ made => Len(issued) < MaxEnc
            /\ last' = [op |-> "encrypt", inst |-> i, kind |-> "plaintext",
                        fault |-> fault, input |-> plaintext, status |-> r.status,
                        output |-> r.output, rand |-> r.rand, aead |-> r.aead,
                        nonce |-> IF r.rand THEN nonce ELSE <<>>,
                        data |-> r.data, ret |-> 1]
            /\ drbg' = IF r.rand /\ fault # "rand" THEN drbg + 1 ELSE drbg
            /\ issued' = IF made
                         THEN Append(issued, ExtractNonce(r.data))
                         ELSE issued
            /\ env' = IF made
                      THEN [inst |-> i, plain |-> plaintext, text |-> r.output,
                            data |-> r.data,
                            same |-> env # NoEnv /\ env.plain = plaintext]
                      ELSE env
            /\ UNCHANGED <<master, key_, salt_, call, freed>>

\* bug variant: the nonce is not drawn anew for each call
EncryptFixedNonce(i, plaintext) == EncryptCall(i, plaintext, "none", RAND_bytes(0))

\* encrypt(plaintext) with every library call succeeding
Encrypt(i, plaintext) == EncryptCall(i, plaintext, "none", RAND_bytes(drbg))

\* bug variant: a failed verification wipes the instance's key
DecryptCallWipe(i, kind, encrypted, fault, oob) ==
    /\ last = NoCall
    /\ \E r \in {decrypt(key_[i], encrypted, oob, fault # "cipher")} :
        /\ last' = [op |-> "decrypt", inst |-> i, kind |-> kind, fault |-> fault,
                    input |-> encrypted, status |-> r.status, output |-> r.output,
                    rand |-> FALSE, aead |-> r.aead, nonce |-> <<>>,
                    data |-> r.data, ret |-> r.ret]
        /\ key_' = IF r.status = DecryptionFailed
                   THEN [key_ EXCEPT ![i] = Zeros(KeyLen)] ELSE key_
    /\ UNCHANGED <<master, salt_, drbg, issued, env, call, freed>>

\* one call of decrypt on instance i
DecryptCall(i, kind, encrypted, fault, oob) ==
    /\ last = NoCall
    /\ \E r \in {decrypt(key_[i], encrypted, oob, fault # "cipher")} :
        last' = [op |-> "decrypt", inst |-> i, kind |-> kind, fault |-> fault,
                 input |-> encrypted, status |-> r.status, output |-> r.output,
                 rand |-> FALSE, aead |-> r.aead, nonce |-> <<>>,
                 data |-> r.data, ret |-> r.ret]
    /\ UNCHANGED <<master, key_, salt_, drbg, issued, env, call, freed>>

\* decrypt("")
DecryptEmpty(i) == DecryptCall(i, "empty", <<>>, "none", NoOob)

\* decrypt of the envelope as encrypt returned it
DecryptEnvelope(i) ==
    /\ env # NoEnv
    /\ DecryptCall(i, "envelope", env.text, "none", NoOob)

\* one bit of one decoded byte flipped, then encoded again
FlipBit(byte, b) ==
    IF (byte \div (2 ^ b)) % 2 = 1 THEN byte - 2 ^ b ELSE byte + 2 ^ b
Tamper(data, p, b) == [data EXCEPT ![p] = FlipBit(data[p], b)]

\* decrypt, under the key that made it, of the envelope with one bit flipped
DecryptTampered(i, p, b) ==
    /\ env # NoEnv
    /\ key_[i] = key_[env.inst]
    /\ p \in 1..Len(env.data)
    /\ DecryptCall(i, "tampered", EncodeLoop(Tamper(env.data, p, b), 0), "none", NoOob)

\* one character of the envelope replaced by one outside the alphabet
DecryptBadChar(i, p, c) ==
    /\ env # NoEnv
    /\ p \in 1..Len(env.text)
    /\ env.text[p] # EqualsSign
    /\ DecryptCall(i, "badchar", [env.text EXCEPT ![p] = c], "none", NoOob)

\* the envelope with 1..3 characters cut off or appended: length not a multiple of 4
DecryptBadLength(i, k, cut, oob) ==
    /\ env # NoEnv
    /\ DecryptCall(i, "badlength",
                   IF cut THEN SubSeq(env.text, 1, Len(env.text) - k)
                   ELSE env.text \o [j \in 1..k |-> 65],
                   "none", oob)

\* a well-formed encoding of fewer than 28 bytes (a truncated envelope)
DecryptShort(i, n) ==
    /\ env # NoEnv
    /\ DecryptCall(i, "short", EncodeLoop(SubSeq(env.data, 1, n), 0), "none", NoOob)

\* a text made by a holder of the instance's key: the encoding of a nonce and the
\* tag of the empty message under that nonce, 28 bytes and no ciphertext
CraftedNonces == {Zeros(NonceLen)}
DecryptTagOnly(i, nonce) ==
    DecryptCall(i, "tagonly",
                EncodeLoop(Combine(nonce, GcmTag(key_[i], nonce, <<>>), <<>>), 0),
                "none", NoOob)

\* the caller takes the result (the returned string or the exception); the
\* call's locals are gone and the next call can be made
Collect ==
    /\ last # NoCall
    /\ last' = NoCall
    /\ UNCHANGED <<master, key_, salt_, drbg, issued, env, call, freed>>

Next ==
    \/ \E i \in Inst, plaintext \in Plaintexts : Encrypt(i, plaintext)
    \/ \E i \in Inst : DecryptEmpty(i)
    \/ \E i \in Inst : DecryptEnvelope(i)
    \/ \E i \in Inst, p \in 1..(MinEnvelope + MaxLen), b \in 0..7 : DecryptTampered(i, p, b)
    \/ \E i \in Inst, p \in 1..(4 * (MinEnvelope + MaxLen)), c \in BadChars :
          DecryptBadChar(i, p, c)
    \/ \E i \in Inst, k \in 1..3, cut \in BOOLEAN, oob \in OobChoices :
          DecryptBadLength(i, k, cut, oob)
    \/ \E i \in Inst, n \in ShortLens : DecryptShort(i, n)
    \/ \E i \in Inst, nonce \in CraftedNonces : DecryptTagOnly(i, nonce)
    \/ Collect

Spec == Init /\ [][Next]_vars

\* ------------------------------------- instances built with one secret
\* both instances are built with the same master secret, any of the three, and
\* serve calls that return and calls that throw, in any order
InitSame ==
    \E s \in Secrets : Construct([i \in Inst |-> s], [i \in Inst |-> TRUE])

NextSame ==
    \/ \E i \in Inst, plaintext \in Plaintexts : Encrypt(i, plaintext)
    \/ \E i \in Inst : DecryptEmpty(i)
    \/ \E i \in Inst : DecryptEnvelope(i)
    \/ \E i \in Inst, k \in 1..3, cut \in BOOLEAN, oob \in OobChoices :
          DecryptBadLength(i, k, cut, oob)
    \/ \E i \in Inst, n \in ShortLens : DecryptShort(i, n)
    \/ \E i \in Inst, nonce \in CraftedNonces : DecryptTagOnly(i, nonce)
    \/ Collect

SpecSame == InitSame /\ [][NextSame]_vars

\* ------------------------------------------------ failing library calls
\* The code tests the result of no OpenSSL call but EVP_DecryptFinal_ex. In
\* SpecFault the calls may fail as their documentation allows: PBKDF2 at
\* construction, RAND_bytes in encrypt, EVP_DecryptInit_ex in decrypt.
InitFault ==
    \E s \in Secrets, kdfOk \in [Inst -> BOOLEAN] :
        Construct([i \in Inst |-> IF i = 1 THEN SecretTest ELSE s], kdfOk)

\* what the 12 bytes of the nonce buffer may hold when RAND_bytes wrote nothing:
\* zeros, or what an earlier call left on the stack
UninitNonces == {Zeros(NonceLen)} \cup {issued[k] : k \in 1..Len(issued)}

\* encrypt with RAND_bytes returning 0: the buffer keeps what it held
EncryptRandFails(i, plaintext, stale) ==
    /\ ~empty(plaintext)
    /\ EncryptCall(i, plaintext, "rand", stale)

\* decrypt of the envelope with EVP_DecryptInit_ex returning 0
DecryptCipherFails(i) ==
    /\ env # NoEnv
    /\ DecryptCall(i, "envelope", env.text, "cipher", NoOob)

NextFault ==
    \/ \E i \in Inst, plaintext \in Plaintexts : Encrypt(i, plaintext)
    \/ \E i \in Inst, plaintext \in Plaintexts, stale \in UninitNonces :
          EncryptRandFails(i, plaintext, stale)
    \/ \E i \in Inst : DecryptEnvelope(i)
    \/ \E i \in Inst : DecryptCipherFails(i)
    \/ Collect

SpecFault == InitFault /\ [][NextFault]_vars

\* ------------------------------------------------------- the codec alone
\* The two base64 loops applied to byte sequences of every length from 0, which
\* encrypt itself never hands to its loop (encrypted_data has 29 bytes or more).
CodecBytes == {0, 63, 165, 192, 255}
RECURSIVE SeqsUpTo(_, _)
SeqsUpTo(S, n) ==
    IF n = 0 THEN {<<>>}
    ELSE LET shorter == SeqsUpTo(S, n - 1)
         IN  shorter \cup {Append(x, b) : x \in {y \in shorter : Len(y) = n - 1}, b \in S}
LongBytes == [k \in 1..37 |-> (7 * k * k + 3) % 256]
CodecInputs == SeqsUpTo(CodecBytes, MaxCodecLen) \cup {LongBytes}

\* encrypt's loop run over x
CodecEncode(x) ==
    /\ last = NoCall
    /\ last' = [NoCall EXCEPT !.op = "encode", !.kind = "codec", !.input = x,
                              !.output = EncodeLoop(x, 0)]
    /\ UNCHANGED <<master, key_, salt_, drbg, issued, env, call, freed>>

\* decrypt's loop run over what encrypt's loop produced
CodecDecode ==
    /\ last.op = "encode"
    /\ last' = [last EXCEPT !.op = "decode", !.data = DecodeLoop(last.output, 0, NoOob)]
    /\ UNCHANGED <<master, key_, salt_, drbg, issued, env, call, freed>>

NextCodec ==
    \/ \E x \in CodecInputs : CodecEncode(x)
    \/ CodecDecode
    \/ Collect

SpecCodec == Init /\ [][NextCodec]_vars

\* ------------------------------------------- concurrent callers, by steps
\* Callers run encrypt and decrypt on one instance, one statement group at a
\* time, interleaved in any order. The locals of a call (nonce, tag, ciphertext,
\* encrypted_data, plaintext) are in call[t]; key_ is only read. RAND_bytes is
\* one atomic step: the library's generator is safe for concurrent use.
Shared == 1

\* a return or throw from any position of a call
Done(t, op, kind, input, status, result) ==
    [call EXCEPT ![t] = [@ EXCEPT !.pc = "done", !.op = op, !.kind = kind,
                                  !.input = input, !.status = status,
                                  !.result = result]]

\* nonces drawn or about to be drawn by the calls under way
Pending == Cardinality({u \in Callers : call[u].op = "encrypt" /\ call[u].pc = "rand"})

\* encrypt, lines 781-787: the two tests before any work
EncStart(t, plaintext) ==
    /\ call[t].pc = "idle"
    /\ drbg + Pending < MaxEnc
    /\ call' = IF empty(plaintext)
               THEN Done(t, "encrypt", "plaintext", plaintext, Returned, plaintext)
               ELSE IF empty(key_[Shared])
               THEN Done(t, "encrypt", "plaintext", plaintext, KeyNotSet, <<>>)
               ELSE [call EXCEPT ![t] = [Idle EXCEPT !.pc = "rand", !.op = "encrypt",
                                                     !.kind = "plaintext",
                                                     !.input = plaintext]]
    /\ UNCHANGED <<master, key_, salt_, drbg, issued, env, last, freed>>

\* unsigned char nonce[12]; RAND_bytes(nonce, 12)
EncRand(t) ==
    /\ call[t].op = "encrypt" /\ call[t].pc = "rand"
    /\ call' = [call EXCEPT ![t].nonce = RAND_bytes(drbg), ![t].ticket = drbg,
                            ![t].pc = "update"]
    /\ drbg' = drbg + 1
    /\ UNCHANGED <<master, key_, salt_, issued, env, last, freed>>

\* bug variant: one nonce buffer for all calls (static), holding the latest draw
NonceOfStatic(t) == RAND_bytes(drbg - 1)

\* the nonce buffer of caller t's call: a local array of the call
NonceOf(t) == call[t].nonce

\* EVP_EncryptInit_ex, EVP_EncryptUpdate, EVP_EncryptFinal_ex
EncUpdate(t) ==
    /\ call[t].op = "encrypt" /\ call[t].pc = "update"
    /\ call' = [call EXCEPT ![t].ciphertext =
                                GcmCrypt(key_[Shared], NonceOf(t), call[t].input),
                            ![t].pc = "tag"]
    /\ UNCHANGED <<master, key_, salt_, drbg, issued, env, last, freed>>

\* unsigned char tag[16]; EVP_CTRL_GCM_GET_TAG
EncTag(t) ==
    /\ call[t].op = "encrypt" /\ call[t].pc = "tag"
    /\ call' = [call EXCEPT ![t].tag =
                                GcmTag(key_[Shared], NonceOf(t), call[t].ciphertext),
                            ![t].pc = "combine"]
    /\ UNCHANGED <<master, key_, salt_, drbg, issued, env, last, freed>>

\* encrypted_data: nonce, tag, ciphertext
EncCombine(t) ==
    /\ call[t].op = "encrypt" /\ call[t].pc = "combine"
    /\ call' = [call EXCEPT ![t].data =
                                Combine(NonceOf(t), call[t].tag, call[t].ciphertext),
                            ![t].pc = "encode"]
    /\ UNCHANGED <<master, key_, salt_, drbg, issued, env, last, freed>>

\* the base64 loop and return result
EncEncode(t) ==
    /\ call[t].op = "encrypt" /\ call[t].pc = "encode"
    /\ \E text \in {EncodeLoop(call[t].data, 0)} :
        /\ call' = [call EXCEPT ![t].result = text, ![t].pc = "done"]
        /\ env' = [inst |-> Shared, plain |-> call[t].input, text |-> text,
                   data |-> call[t].data,
                   same |-> env # NoEnv /\ env.plain = call[t].input]
    /\ issued' = Append(issued, ExtractNonce(call[t].data))
    /\ UNCHANGED <<master, key_, salt_, drbg, last, freed>>

\* decrypt, lines 842-848: the two tests before any work. The input is "", the
\* latest envelope, or that envelope with the lowest bit of its last byte flipped.
DecStart(t, kind) ==
    /\ call[t].pc = "idle"
    /\ kind \in {"empty", "envelope", "tampered"}
    /\ kind # "empty" => env # NoEnv
    /\ \E encrypted \in {IF kind = "empty" THEN <<>>
                          ELSE IF kind = "envelope" THEN env.text
                          ELSE EncodeLoop(Tamper(env.data, Len(env.data), 0), 0)} :
        call' = IF empty(encrypted)
                THEN Done(t, "decrypt", kind, encrypted, Returned, encrypted)
                ELSE IF empty(key_[Shared])
                THEN Done(t, "decrypt", kind, encrypted, KeyNotSet, <<>>)
                ELSE [call EXCEPT ![t] = [Idle EXCEPT !.pc = "decode", !.op = "decrypt",
                                                      !.kind = kind, !.input = encrypted,
                                                      !.expect = env.plain]]
    /\ UNCHANGED <<master, key_, salt_, drbg, issued, env, last, freed>>

\* the base64 loop into encrypted_data
DecDecode(t) ==
    /\ call[t].op = "decrypt" /\ call[t].pc = "decode"
    /\ call' = [call EXCEPT ![t].data = DecodeLoop(call[t].input, 0, NoOob),
                            ![t].pc = "size"]
    /\ UNCHANGED <<master, key_, salt_, drbg, issued, env, last, freed>>

\* the size test, then nonce, tag and ciphertext taken out of encrypted_data
DecExtract(t) ==
    /\ call[t].op = "decrypt" /\ call[t].pc = "size"
    /\ call' = IF TooShort(call[t].data)
               THEN Done(t, "decrypt", call[t].kind, call[t].input, InvalidData, <<>>)
               ELSE [call EXCEPT ![t].nonce = ExtractNonce(call[t].data),
                                 ![t].tag = ExtractTag(call[t].data),
                                 ![t].ciphertext = ExtractCiphertext(call[t].data),
                                 ![t].pc = "update"]
    /\ UNCHANGED <<master, key_, salt_, drbg, issued, env, last, freed>>

\* EVP_DecryptInit_ex, EVP_DecryptUpdate into the plaintext buffer
DecUpdate(t) ==
    /\ call[t].op = "decrypt" /\ call[t].pc = "update"
    /\ call' = [call EXCEPT ![t].plaintext =
                                GcmCrypt(key_[Shared], call[t].nonce, call[t].ciphertext),
                            ![t].pc = "final"]
    /\ UNCHANGED <<master, key_, salt_, drbg, issued, env, last, freed>>

\* EVP_CTRL_GCM_SET_TAG, EVP_DecryptFinal_ex, the test of ret, return
DecFinal(t) ==
    /\ call[t].op = "decrypt" /\ call[t].pc = "final"
    /\ call' = IF FinalFailed(EVP_DecryptFinal_ex(key_[Shared], call[t].nonce,
                                                  call[t].tag, call[t].ciphertext, TRUE))
               THEN Done(t, "decrypt", call[t].kind, call[t].input, DecryptionFailed, <<>>)
               ELSE Done(t, "decrypt", call[t].kind, call[t].input, Returned,
                         call[t].plaintext)
    /\ UNCHANGED <<master, key_, salt_, drbg, issued, env, last, freed>>

\* the caller has the result; the locals of the call are gone
Return(t) ==
    /\ call[t].pc = "done"
    /\ call' = [call EXCEPT ![t] = Idle]
    /\ UNCHANGED <<master, key_, salt_, drbg, issued, env, last, freed>>

NextConc ==
    \/ \E t \in Callers, plaintext \in Plaintexts : EncStart(t, plaintext)
    \/ \E t \in Callers : EncRand(t)
    \/ \E t \in Callers : EncUpdate(t)
    \/ \E t \in Callers : EncTag(t)
    \/ \E t \in Callers : EncCombine(t)
    \/ \E t \in Callers : EncEncode(t)
    \/ \E t \in Callers, kind \in {"empty", "envelope", "tampered"} : DecStart(t, kind)
    \/ \E t \in Callers : DecDecode(t)
    \/ \E t \in Callers : DecExtract(t)
    \/ \E t \in Callers : DecUpdate(t)
    \/ \E t \in Callers : DecFinal(t)
    \/ \E t \in Callers : Return(t)

InitConc == Construct([i \in Inst |-> SecretTest], [i \in Inst |-> TRUE])

SpecConc == InitConc /\ [][NextConc]_vars

\* ------------------------------------------------------ end of an instance
\* The class declares no destructor: the implicit one destroys salt_ and key_,
\* and a vector's destructor gives its block back to the allocator without
\* writing to it.
Alive(i) == freed[i] = <<>>

\* what a block may hold once the allocator has it back: the bytes as they
\* were, the bytes with the allocator's list links over the leading 16, or the
\* fill of an allocator that clears what it frees
AfterFree(bytes) ==
    { bytes,
      [j \in 1..Len(bytes) |-> IF j <= 16 THEN 0 ELSE bytes[j]],
      Zeros(Len(bytes)) }

\* ~EncryptionManager(), implicit
Destroy(i) ==
    /\ Alive(i)
    /\ \E residue \in AfterFree(key_[i]) : freed' = [freed EXCEPT ![i] = residue]
    /\ key_' = [key_ EXCEPT ![i] = <<>>]
    /\ salt_' = [salt_ EXCEPT ![i] = <<>>]
    /\ UNCHANGED <<master, drbg, issued, env, last, call>>

\* calls are made on living instances only
NextLife ==
    \/ \E i \in Inst, plaintext \in Plaintexts : Alive(i) /\ Encrypt(i, plaintext)
    \/ \E i \in Inst : Alive(i) /\ DecryptEnvelope(i)
    \/ Collect
    \/ \E i \in Inst : Destroy(i)

SpecLife == Init /\ [][NextLife]_vars

\* ----------------------------------------------------------------- claims
IsDecrypt == last.op = "decrypt"
IsEncrypt == last.op = "encrypt"
Rejected(err) == last.status = err /\ last.output = <<>>

\* the held result is decrypt's answer to the latest envelope, unchanged
OfEnvelope == IsDecrypt /\ env # NoEnv /\ last.input = env.text

\* C1: decrypt, on the instance that made it, of what encrypt returned for P
\* returns exactly P; for the empty P that is decrypt("") = "".
RoundTrip ==
    /\ (OfEnvelope /\ last.inst = env.inst)
          => (last.status = Returned /\ last.output = env.plain)
    /\ (IsDecrypt /\ last.input = <<>>) => (last.status = Returned /\ last.output = <<>>)

RoundTripWitness ==
    /\ OfEnvelope /\ last.inst = env.inst
    /\ Len(env.plain) >= 2
    /\ last.output = env.plain

\* C2: an envelope of a non-empty plaintext with one bit of its decoded bytes
\* flipped and encoded again is rejected with AuthenticationFailure by every
\* instance holding the key that made it; no plaintext comes back.
TamperDetected ==
    (IsDecrypt /\ last.kind = "tampered") => Rejected(AuthenticationFailure)

TamperWitness ==
    /\ IsDecrypt /\ last.kind = "tampered"
    /\ ExtractNonce(last.data) = ExtractNonce(env.data)
    /\ ExtractTag(last.data) = ExtractTag(env.data)
    /\ ExtractCiphertext(last.data) # ExtractCiphertext(env.data)
    /\ Rejected(AuthenticationFailure)

\* C3: an envelope made by an instance built with one master secret is rejected
\* with AuthenticationFailure by an instance built with a different one.
WrongKeyRejected ==
    (OfEnvelope /\ master[last.inst] # master[env.inst])
        => Rejected(AuthenticationFailure)

WrongKeyWitness ==
    /\ OfEnvelope
    /\ master[last.inst] # master[env.inst]
    /\ key_[last.inst] # key_[env.inst]
    /\ Rejected(AuthenticationFailure)

\* the GCM tag of the decoded ciphertext under the callee's key is the decoded tag
TagMatches ==
    GcmTag(key_[last.inst], SubSeq(last.data, 1, NonceLen),
           SubSeq(last.data, MinEnvelope + 1, Len(last.data)))
        = SubSeq(last.data, NonceLen + 1, MinEnvelope)

\* C4: decrypt hands out plaintext only after the tag was verified; when the tag
\* does not match it ends in AuthenticationFailure, and no failing decrypt
\* returns any byte.
FailClosed ==
    /\ (IsDecrypt /\ last.aead /\ ~TagMatches) => Rejected(AuthenticationFailure)
    /\ (IsDecrypt /\ last.status = Returned /\ last.input # <<>>)
          => (last.aead /\ last.ret = 1 /\ TagMatches)
    /\ (IsDecrypt /\ last.status # Returned) => last.output = <<>>

FailClosedWitness ==
    /\ IsDecrypt /\ last.aead /\ ~TagMatches
    /\ Len(last.data) > MinEnvelope
    /\ Rejected(AuthenticationFailure)

\* C5: every encrypt of a non-empty plaintext draws a 12-byte nonce and puts it
\* into the envelope it returns, and no two envelopes returned carry the same
\* nonce, also when the same plaintext is encrypted again.
NonceUnique ==
    /\ \A a, b \in 1..Len(issued) : a # b => issued[a] # issued[b]
    /\ \A a \in 1..Len(issued) : Len(issued[a]) = NonceLen
    /\ (IsEncrypt /\ last.input # <<>> /\ last.status = Returned)
          => /\ last.rand
             /\ SubSeq(DecodeLoop(last.output, 0, NoOob), 1, NonceLen) = last.nonce
             /\ issued[Len(issued)] = last.nonce

NonceUniqueWitness ==
    /\ IsEncrypt /\ last.status = Returned
    /\ Len(issued) >= 2
    /\ env.same
    /\ issued[Len(issued)] # issued[Len(issued) - 1]

\* C6: a call during which a library step failed, or on an instance whose key
\* derivation failed, does not return: it ends in an error.
ErrorsSurface ==
    /\ last.fault # "none" => last.status # Returned
    /\ (last.op # "none" /\ last.input # <<>>
          /\ master[last.inst] # <<>> /\ key_[last.inst] = Zeros(KeyLen))
          => last.status # Returned

\* C7: decrypt of a text with a character outside the alphabet, or of a length
\* that is not a multiple of 4, is rejected with MalformedEnvelope.
MalformedRejected ==
    (IsDecrypt /\ last.kind \in {"badchar", "badlength"}) => Rejected(MalformedEnvelope)

\* C8: a non-empty input that decodes to fewer than 28 bytes is rejected with
\* MalformedEnvelope and the cipher is not run; the encoding of n < 28 bytes
\* decodes to n bytes.
MinimumLength ==
    /\ (IsDecrypt /\ last.input # <<>> /\ Len(last.data) < MinEnvelope)
          => (Rejected(MalformedEnvelope) /\ ~last.aead)
    /\ (IsDecrypt /\ last.kind = "short") => Len(last.data) < MinEnvelope

MinimumLengthWitness ==
    /\ IsDecrypt /\ last.kind = "short"
    /\ Len(last.data) = MinEnvelope - 1
    /\ Rejected(MalformedEnvelope)

\* C9: encrypt("") and decrypt("") return "" on every instance: no nonce is
\* drawn, no envelope is built and no error is raised.
EmptyShortCircuit ==
    ((IsEncrypt \/ IsDecrypt) /\ last.input = <<>>)
        => /\ last.status = Returned /\ last.output = <<>>
           /\ ~last.rand /\ ~last.aead /\ last.data = <<>>

EmptyWitness ==
    /\ IsEncrypt /\ last.input = <<>> /\ last.output = <<>>
    /\ env # NoEnv

\* C10: what encrypt returns for n > 0 bytes decodes to 28 + n bytes: the nonce
\* drawn for the call, the 16-byte tag, then a ciphertext of n bytes.
EnvelopeLayout ==
    (IsEncrypt /\ last.input # <<>> /\ last.status = Returned)
        => LET d == DecodeLoop(last.output, 0, NoOob)
               n == Len(last.input)
               ct == GcmCrypt(key_[last.inst], last.nonce, last.input)
           IN  /\ Len(d) = MinEnvelope + n
               /\ Len(d) >= MinEnvelope
               /\ Len(last.nonce) = NonceLen
               /\ SubSeq(d, 1, NonceLen) = last.nonce
               /\ SubSeq(d, NonceLen + 1, NonceLen + TagLen)
                     = GcmTag(key_[last.inst], last.nonce, ct)
               /\ Len(ct) = n
               /\ SubSeq(d, NonceLen + TagLen + 1, Len(d)) = ct

EnvelopeLayoutWitness ==
    /\ IsEncrypt /\ last.status = Returned
    /\ Len(last.input) = 2
    /\ Len(last.data) = MinEnvelope + 2

\* the 64 symbols of the alphabet
Alphabet == {b64_chars[k] : k \in 1..64}

\* C11: what encrypt returns for n > 0 bytes has exactly ceil((28 + n) / 3) * 4
\* characters of the 64-symbol alphabet, with '=' only as the last one or two
\* characters; it is not empty, its length is a multiple of 4, and it is not the
\* plaintext.
EncodedForm ==
    (IsEncrypt /\ last.input # <<>> /\ last.status = Returned)
        => LET out == last.output
               n == Len(last.input)
               m == Len(out)
           IN  /\ m = ((MinEnvelope + n + 2) \div 3) * 4
               /\ m > 0
               /\ m % 4 = 0
               /\ \A k \in 1..(m - 2) : out[k] \in Alphabet
               /\ out[m - 1] \in Alphabet \cup {EqualsSign}
               /\ out[m] \in Alphabet \cup {EqualsSign}
               /\ out[m - 1] = EqualsSign => out[m] = EqualsSign
               /\ out # last.input

EncodedFormWitness ==
    /\ IsEncrypt /\ last.status = Returned
    /\ Len(last.input) = 3
    /\ Len(last.output) = 44
    /\ last.output[43] = EqualsSign /\ last.output[44] = EqualsSign
    /\ last.output[42] # EqualsSign

\* C12: for every byte sequence x, of length 0, 1, 2, 3, 4 and 37, decrypt's
\* decoding loop applied to what encrypt's encoding loop made of x gives x.
CodecRoundTrip ==
    last.op = "decode" => last.data = last.input

CodecRoundTripWitness ==
    /\ last.op = "decode"
    /\ Len(last.input) = 4
    /\ last.input[1] = 255 /\ last.input[4] = 63
    /\ Len(last.output) = 8
    /\ last.data = last.input

DerivationForEverySecret ==
    \A i \in Inst :
        /\ Len(salt_[i]) = 16
        /\ key_[i] = PKCS5_PBKDF2_HMAC(master[i], salt_[i], 100000, 32)

\* C15: no encrypt or decrypt call, returning or throwing, changes the key or
\* the salt of any instance, and the salt of every instance is the same 16-byte
\* constant.
StateImmutable ==
    /\ [](\A i \in Inst : salt_[i] = SaltLiteral /\ Len(salt_[i]) = 16)
    /\ [][key_' = key_ /\ salt_' = salt_]_vars

StateImmutableWitness ==
    /\ IsDecrypt /\ last.kind = "badchar" /\ last.status = DecryptionFailed
    /\ Len(issued) >= 1
    /\ key_[last.inst] = derive_key(master[last.inst], SaltLiteral, TRUE)
    /\ salt_[last.inst] = SaltLiteral

\* C16: with the steps of the callers' calls on one instance interleaved in any
\* order, every finished call has the result it has when run alone (encrypt: the
\* envelope of its plaintext under its own nonce; decrypt: what decrypt gives
\* for its input, the plaintext for an envelope as returned), and no two calls
\* use or emit the same nonce.
ConcurrentUse ==
    /\ \A t \in Callers :
          (call[t].pc = "done" /\ call[t].op = "encrypt")
              => LET r == encrypt(key_[Shared], call[t].input, RAND_bytes(call[t].ticket))
                 IN  call[t].status = r.status /\ call[t].result = r.output
    /\ \A t \in Callers :
          (call[t].pc = "done" /\ call[t].op = "decrypt")
              => LET r == decrypt(key_[Shared], call[t].input, NoOob, TRUE)
                 IN  /\ call[t].status = r.status /\ call[t].result = r.output
                     /\ call[t].kind = "envelope"
                           => (call[t].status = Returned
                                 /\ call[t].result = call[t].expect)
    /\ \A t, u \in Callers :
          (t # u /\ call[t].op = "encrypt" /\ call[u].op = "encrypt"
                 /\ call[t].nonce # <<>> /\ call[u].nonce # <<>>)
              => call[t].nonce # call[u].nonce
    /\ \A a, b \in 1..Len(issued) : a # b => issued[a] # issued[b]

ConcurrentUseWitness ==
    /\ call[1].pc = "done" /\ call[1].op = "decrypt" /\ call[1].kind = "envelope"
    /\ call[1].result = call[1].expect
    /\ call[2].pc = "done" /\ call[2].op = "encrypt" /\ Len(call[2].input) = 2
    /\ call[1].input # env.text
    /\ Len(issued) = 2

\* the derivation of instance i failed: a non-empty secret, yet the zero-filled
\* buffer is the key
DerivationFailed(i) == master[i] # <<>> /\ key_[i] = Zeros(KeyLen)

\* C17: on an instance whose key derivation failed, every encrypt or decrypt of
\* a non-empty input is rejected with KeyNotConfigured and the cipher is not run.
KeyNotConfiguredRaised ==
    ((IsEncrypt \/ IsDecrypt) /\ last.input # <<>> /\ DerivationFailed(last.inst))
        => (Rejected(KeyNotConfigured) /\ ~last.aead)

\* C18: once an instance is destroyed, the block that held its key holds zeros
\* and no longer the key.
KeyScrubbed ==
    \A i \in Inst :
        ~Alive(i)
            => /\ freed[i] = Zeros(KeyLen)
               /\ master[i] # <<>> => freed[i] # derive_key(master[i], SaltLiteral, TRUE)

\* C19: decrypt of a non-empty text never returns the empty plaintext; a text
\* that decodes to exactly 28 bytes is rejected, also when its tag is the tag of
\* the empty message under the instance's key.
ZeroLengthRejected ==
    /\ (IsDecrypt /\ last.input # <<>> /\ last.status = Returned) => last.output # <<>>
    /\ (IsDecrypt /\ last.input # <<>> /\ Len(last.data) = MinEnvelope)
          => last.status # Returned

\* C20: for a non-empty text of n characters the decoding loop makes a round at
\* every i = 0, 4, 8, ... below n and reads positions i..i+3 in each, so it
\* reads exactly the positions below the next multiple of 4; when n is not a
\* multiple of 4 it reads a position at or past n, and that round pushes a byte.
DecodeReadsPastEnd ==
    (IsDecrypt /\ last.input # <<>>)
        => LET n == Len(last.input)
               rounds == (n + 3) \div 4
               reads == DecodeReads(last.input, 0)
           IN  /\ reads = 0..(4 * rounds - 1)
               /\ n % 4 # 0 => \E p \in reads : p >= n
               /\ Len(last.data) >= rounds
               /\ Len(last.data) <= 3 * rounds

DecodeReadsPastEndWitness ==
    /\ IsDecrypt /\ last.kind = "badlength"
    /\ Len(last.input) % 4 = 1
    /\ (Len(last.input) + 2) \in DecodeReads(last.input, 0)
    /\ Len(last.data) > MinEnvelope
    /\ last.status = DecryptionFailed

\* C21: for every master secret, the empty one included, what encrypt returned
\* for P on one instance is decrypted to exactly P by the other instance built
\* with the same secret, whatever calls the two served before.
Interoperates ==
    (OfEnvelope /\ last.inst # env.inst /\ master[last.inst] = master[env.inst])
        => (last.status = Returned /\ last.output = env.plain)

InteroperatesWitness ==
    /\ OfEnvelope /\ last.inst # env.inst
    /\ master[last.inst] = <<>> /\ master[env.inst] = <<>>
    /\ Len(issued) = 2
    /\ Len(env.plain) = 3
    /\ last.output = env.plain

\* C22: whatever the master secret, empty or not, and whether or not PBKDF2
\* succeeded, the key of every instance has exactly 32 bytes in every state, so
\* the test key_.empty() is false in every call and no call ends in
\* "Encryption key not set".
KeyAlwaysSized ==
    /\ \A i \in Inst : Len(key_[i]) = 32 /\ ~empty(key_[i])
    /\ last.status # KeyNotSet

KeyAlwaysSizedWitness ==
    /\ IsDecrypt /\ last.input # <<>>
    /\ DerivationFailed(last.inst)
    /\ master[2] = <<>>
    /\ Len(key_[1]) = 32 /\ Len(key_[2]) = 32
    /\ last.aead /\ last.status = Returned

====
